---- MODULE Spec2Model ----
(***************************************************************************)
(* Copy utilities (copy_utils_solution.py): shallow_copy, deep_copy,       *)
(* copy_dict_with_override, merge_dicts, deep_merge_dicts and freeze_dict, *)
(* modelled over an explicit object heap so that aliasing between an       *)
(* input and a result is observable.                                       *)
(*                                                                         *)
(* A value is a record [t, v]: an int scalar ([t |-> "int"]) or a          *)
(* reference to a heap object ([t |-> "ref", v |-> address]).  A heap is a *)
(* sequence of objects; an object is a record [kind, members], members a   *)
(* sequence of items [k, v]: for a dict, its items in insertion order, the *)
(* keys unique; for a list, its elements in order (under the key NoKey);   *)
(* for a set, its elements in ascending order (a set has no order of its   *)
(* own, and holds hashable members only: scalars).                         *)
(***************************************************************************)
EXTENDS Integers, Sequences, FiniteSets, TLC

VARIABLES
    heap,      \* the objects, by address
    args,      \* the arguments of the call
    result,    \* the value the call returned or raised, None before the call
    frozen,    \* freeze_dict's outcome for each argument, None before the call
    op,        \* the operation called, "init" before the call
    pre,       \* the heap when the call was made
    post,      \* the heap when the call returned
    touched    \* the client's mutations after the call: how many, and whether
               \* each was of a container reachable from the result (res), of a
               \* container reachable from an argument (arg)

vars == <<heap, args, result, frozen, op, pre, post, touched>>

----------------------------------------------------------------------------
(* Bounds of the model *)

\* Nesting depth of the generated input values.
MaxDepth == 2
\* Number of client mutations explored after a call.
MaxSteps == 1
\* Number of mappings handed to merge_dicts.
MaxDicts == 3
\* Number of items of a dict handed to freeze_dict.
MaxItems == 3
\* Depth at which the interpreter gives up a recursion (RecursionError).
RecursionLimit == 6

----------------------------------------------------------------------------
(* Values, keys and objects *)

Int_(n) == [t |-> "int", v |-> n]
Ref(a) == [t |-> "ref", v |-> a]
None == [t |-> "none", v |-> 0]
\* An exception propagated to the caller, by its name.
Raised(name) == [t |-> name, v |-> 0]
IsRaised(x) == x.t \in {"RecursionError", "TypeError"}

IsRef(x) == x.t = "ref"

StrKey(n) == [t |-> "str", v |-> n]
IntKey(n) == [t |-> "int", v |-> n]
\* A frozenset key, coded by its bitmask over {1, 2}: 1 = {1}, 2 = {2}, 3 = {1,2}.
FsetKey(n) == [t |-> "fset", v |-> n]

KA == StrKey(1)
KB == StrKey(2)
KC == StrKey(3)
KD == StrKey(4)

\* The key of the elements of a list or a set, which have none.
NoKey == [t |-> "none", v |-> 0]

Item(k, x) == [k |-> k, v |-> x]
Elem(x) == Item(NoKey, x)

DictObj(items) == [kind |-> "dict", members |-> items]
ListObj(items) == [kind |-> "list", members |-> items]
SetObj(items) == [kind |-> "set", members |-> items]

Range(s) == {s[i] : i \in DOMAIN s}

\* isinstance(x, dict) in heap h
IsDict(h, x) == IsRef(x) /\ h[x.v].kind = "dict"

\* The addresses an object refers to directly.
Refs(o) == {it.v.v : it \in {i \in Range(o.members) : IsRef(i.v)}}

RECURSIVE Reach(_, _)
\* The addresses reachable in h from the set S of addresses.
Reach(h, S) ==
    LET N == S \cup UNION {Refs(h[a]) : a \in S}
    IN IF N = S THEN S ELSE Reach(h, N)

ReachVal(h, x) == IF IsRef(x) THEN Reach(h, {x.v}) ELSE {}

ReachAll(h, xs) == UNION {ReachVal(h, xs[i]) : i \in DOMAIN xs}

----------------------------------------------------------------------------
(* dict primitives *)

Keys(items) == {it.k : it \in Range(items)}

\* d[k], for k in d
Get(items, k) == (CHOOSE it \in Range(items) : it.k = k).v

\* d[k] = x : an existing key keeps its position, a new key is appended.
DictSet(items, k, x) ==
    IF k \in Keys(items)
    THEN [i \in DOMAIN items |-> IF items[i].k = k THEN Item(k, x) ELSE items[i]]
    ELSE Append(items, Item(k, x))

\* h with the dict at address a assigned a[k] = x
SetItem(h, a, k, x) == [h EXCEPT ![a].members = DictSet(@, k, x)]

RECURSIVE UpdateFrom(_, _, _, _)
\* a.update(other), other's items taken in insertion order from index i on
UpdateFrom(h, a, other, i) ==
    IF i > Len(other) THEN h
    ELSE UpdateFrom(SetItem(h, a, other[i].k, other[i].v), a, other, i + 1)

Update(h, a, other) == UpdateFrom(h, a, other, 1)

----------------------------------------------------------------------------
(* shallow_copy and deep_copy *)

\* A call's outcome: the heap after it and the value returned (or raised).
Out(h, x) == [h |-> h, v |-> x]

\* copy.deepcopy in place of obj.copy(): the members are copied too.
shallow_copy_deep(h, obj) ==
    IF ~IsRef(obj) THEN Out(h, obj)
    ELSE LET R == Reach(h, {obj.v})
             rank(a) == Cardinality({b \in R : b <= a})
             m == [a \in R |-> Len(h) + rank(a)]
             src(i) == CHOOSE a \in R : rank(a) = i
         IN Out(h \o [i \in 1..Cardinality(R) |->
                         LET o == h[src(i)]
                             mv(x) == IF IsRef(x) THEN Ref(m[x.v]) ELSE x
                         IN [o EXCEPT !.members =
                                   [j \in DOMAIN @ |-> Item(@[j].k, mv(@[j].v))]]],
                Ref(m[obj.v]))

\* obj.copy() for dict, list and set; copy.copy of an int is the int itself.
shallow_copy(h, obj) ==
    IF IsRef(obj) THEN Out(Append(h, h[obj.v]), Ref(Len(h) + 1))
    ELSE Out(h, obj)

\* The object o with every reference a replaced by the reference m[a].
Remap(o, m) ==
    LET mv(x) == IF IsRef(x) THEN Ref(m[x.v]) ELSE x
    IN [o EXCEPT !.members = [i \in DOMAIN @ |-> Item(@[i].k, mv(@[i].v))]]

\* copy.copy in place of copy.deepcopy: only the top level is copied.
deep_copy_shallow(h, obj) == shallow_copy(h, obj)

\* No copy at all: the object itself is returned.
deep_copy_alias(h, obj) == Out(h, obj)

\* copy.deepcopy(obj): every container reachable from obj is copied once (the
\* memo keeps sharing and cycles of the source intact in the copy); an int is
\* returned as it is.
deep_copy(h, obj) ==
    IF ~IsRef(obj) THEN Out(h, obj)
    ELSE LET R == Reach(h, {obj.v})
             rank(a) == Cardinality({b \in R : b <= a})
             m == [a \in R |-> Len(h) + rank(a)]
             src(i) == CHOOSE a \in R : rank(a) = i
             fresh == [i \in 1..Cardinality(R) |-> Remap(h[src(i)], m)]
         IN Out(h \o fresh, Ref(m[obj.v]))

----------------------------------------------------------------------------
(* copy_dict_with_override, merge_dicts, deep_merge_dicts *)

\* result = original with no copy taken: the update then writes into original.
copy_dict_with_override_alias(h, original, overrides) ==
    Out(Update(h, original.v, h[overrides.v].members), original)

\* copy_dict_with_override(original, **overrides): the call packs the keyword
\* arguments into a dict of its own; result = original.copy();
\* result.update(overrides).
copy_dict_with_override(h, original, overrides) ==
    LET kw == shallow_copy(h, overrides)
        r == shallow_copy(kw.h, original)
    IN Out(Update(r.h, r.v.v, r.h[kw.v.v].members), r.v)

RECURSIVE MergeFrom(_, _, _, _)
\* for d in dicts[i..]: result.update(d)
MergeFrom(h, a, dicts, i) ==
    IF i > Len(dicts) THEN h
    ELSE MergeFrom(Update(h, a, h[dicts[i].v].members), a, dicts, i + 1)

\* Earlier dicts win: a key already in result is not overwritten.
merge_dicts_first_wins(h, dicts) ==
    LET RECURSIVE go(_, _)
        go(g, i) ==
            IF i < 1 THEN g
            ELSE go(Update(g, Len(h) + 1, g[dicts[i].v].members), i - 1)
    IN Out(go(Append(h, DictObj(<<>>)), Len(dicts)), Ref(Len(h) + 1))

\* merge_dicts(*dicts): result = {}; each dict in turn updates it.
merge_dicts(h, dicts) ==
    Out(MergeFrom(Append(h, DictObj(<<>>)), Len(h) + 1, dicts, 1), Ref(Len(h) + 1))

\* The branch of deep_merge_dicts never taken: every key is replaced.
MergesInto_never(h, res, key, value) == FALSE

\* key in result and isinstance(result[key], dict) and isinstance(value, dict)
MergesInto(h, res, key, value) ==
    /\ key \in Keys(h[res.v].members)
    /\ IsDict(h, Get(h[res.v].members, key))
    /\ IsDict(h, value)

RECURSIVE deep_merge_at(_, _, _, _)
RECURSIVE deep_merge_loop(_, _, _, _, _)

\* The for loop of deep_merge_dicts from the i-th item of override on, at
\* recursion depth d; an exception raised below ends the loop and propagates.
deep_merge_loop(h, res, override, i, d) ==
    IF i > Len(h[override.v].members) THEN Out(h, res)
    ELSE LET key == h[override.v].members[i].k
             value == h[override.v].members[i].v
         IN IF MergesInto(h, res, key, value)
            THEN LET sub == deep_merge_at(h, Get(h[res.v].members, key), value, d + 1)
                 IN IF IsRaised(sub.v) THEN sub
                    ELSE deep_merge_loop(SetItem(sub.h, res.v, key, sub.v),
                                         res, override, i + 1, d)
            ELSE LET c == deep_copy(h, value)
                 IN deep_merge_loop(SetItem(c.h, res.v, key, c.v),
                                    res, override, i + 1, d)

\* deep_merge_dicts entered at recursion depth d: result = deep_copy(base), then
\* the loop.  Past RecursionLimit frames the interpreter raises RecursionError.
deep_merge_at(h, base, override, d) ==
    IF d > RecursionLimit THEN Out(h, Raised("RecursionError"))
    ELSE LET r == deep_copy(h, base)
         IN deep_merge_loop(r.h, r.v, override, 1, d)

deep_merge_dicts(h, base, override) == deep_merge_at(h, base, override, 1)

----------------------------------------------------------------------------
(* freeze_dict: tuple(sorted(d.members())) *)

\* k1 < k2 raises TypeError unless both keys have the same type.
Orderable(k1, k2) == k1.t = k2.t

\* k1 < k2 for keys of one type: int and str by value, frozenset by proper
\* inclusion (bitmask m1 strictly inside m2).
KeyLt(k1, k2) ==
    IF k1.t = "fset"
    THEN k1.v # k2.v /\ \A b \in {1, 2} : (k1.v \div b) % 2 = 1 => (k2.v \div b) % 2 = 1
    ELSE k1.v < k2.v

\* x < y for two (key, value) tuples of d.members(): the keys of one dict always
\* differ, so the tuples are ordered by their keys.  "err" when < raises.
TupleLt(x, y) ==
    IF ~Orderable(x[1], y[1]) THEN "err"
    ELSE IF KeyLt(x[1], y[1]) THEN "lt" ELSE "ge"

\* s with the element at index j moved to index l <= j
MoveTo(s, j, l) ==
    [i \in DOMAIN s |-> IF i < l \/ i > j THEN s[i] ELSE IF i = l THEN s[j] ELSE s[i - 1]]

Reverse(s) == [i \in DOMAIN s |-> s[Len(s) + 1 - i]]

RECURSIVE RunEnd(_, _, _)
\* count_run: the end of the run that starts s, descending or not.
RunEnd(s, i, desc) ==
    IF i > Len(s) THEN [ok |-> TRUE, n |-> Len(s)]
    ELSE LET c == TupleLt(s[i], s[i - 1])
         IN IF c = "err" THEN [ok |-> FALSE, n |-> 0]
            ELSE IF (c = "lt") = desc THEN RunEnd(s, i + 1, desc)
            ELSE [ok |-> TRUE, n |-> i - 1]

RECURSIVE Bisect(_, _, _, _)
\* binarysort's search for the place of pivot in the sorted prefix s[l..r-1]
Bisect(s, pivot, l, r) ==
    IF l >= r THEN [ok |-> TRUE, n |-> l]
    ELSE LET p == l + ((r - l) \div 2)
             c == TupleLt(pivot, s[p])
         IN IF c = "err" THEN [ok |-> FALSE, n |-> 0]
            ELSE IF c = "lt" THEN Bisect(s, pivot, l, p)
            ELSE Bisect(s, pivot, p + 1, r)

RECURSIVE BinarySort(_, _)
\* binarysort: s[1..start-1] is sorted; insert the rest one by one.
BinarySort(s, start) ==
    IF start > Len(s) THEN [ok |-> TRUE, s |-> s]
    ELSE LET at == Bisect(s, s[start], 1, start)
         IN IF ~at.ok THEN [ok |-> FALSE, s |-> <<>>]
            ELSE BinarySort(MoveTo(s, start, at.n), start + 1)

\* sorted(s) for a short list: the first run is counted (and reversed when
\* descending), the rest is inserted by binary search.
Sorted(s) ==
    IF Len(s) < 2 THEN [ok |-> TRUE, s |-> s]
    ELSE LET c == TupleLt(s[2], s[1])
             run == RunEnd(s, 3, c = "lt")
             head == SubSeq(s, 1, run.n)
             rest == SubSeq(s, run.n + 1, Len(s))
         IN IF c = "err" \/ ~run.ok THEN [ok |-> FALSE, s |-> <<>>]
            ELSE BinarySort((IF c = "lt" THEN Reverse(head) ELSE head) \o rest, run.n + 1)

\* d.members(): the (key, value) tuples in insertion order
Items(o) == [i \in DOMAIN o.members |-> <<o.members[i].k, o.members[i].v>>]

\* The outcome of freeze_dict: a tuple of (key, value) tuples, or an exception.
Tuple(s) == [t |-> "tuple", v |-> s]
FrozenNone == [t |-> "none", v |-> <<>>]
FrozenRaised(name) == [t |-> name, v |-> <<>>]

\* sorted() replaced by the items in insertion order.
freeze_dict_unsorted(h, d) == Tuple(Items(h[d.v]))

\* freeze_dict(d): the sorted items as a tuple, or the TypeError of the sort.
freeze_dict(h, d) ==
    LET r == Sorted(Items(h[d.v]))
    IN IF r.ok THEN Tuple(r.s) ELSE FrozenRaised("TypeError")

----------------------------------------------------------------------------
(* Input values: trees, loaded into a heap with no sharing *)

\* A tree: an int n, or a container of items [k, v] whose values are trees.
TInt(n) == [kind |-> "int", n |-> n, members |-> <<>>]
TDict(items) == [kind |-> "dict", n |-> 0, members |-> items]
TList(ts) == [kind |-> "list", n |-> 0, members |-> [i \in DOMAIN ts |-> Elem(ts[i])]]
\* ts in ascending order
TSet(ts) == [kind |-> "set", n |-> 0, members |-> [i \in DOMAIN ts |-> Elem(ts[i])]]
One(k, t) == TDict(<<Item(k, t)>>)

Leaves == {TInt(0), TInt(1)}

RECURSIVE Nested(_)
\* The containers of nesting depth d >= 1.
Nested(d) ==
    IF d = 1
    THEN {TDict(<<>>), One(KA, TInt(0)), One(KA, TInt(1)), One(KB, TInt(0)),
          TList(<<TInt(0)>>), TSet(<<TInt(0)>>)}
    ELSE {One(KA, t) : t \in Nested(d - 1)} \cup {TList(<<t>>) : t \in Nested(d - 1)}

RECURSIVE MergeNested(_)
\* The containers given to the two-argument operations: at depth d > 1, a dict
\* holding a dict or a list of depth d - 1 under "a".
MergeNested(d) ==
    IF d = 1 THEN Nested(1)
    ELSE {One(KA, t) : t \in {u \in MergeNested(d - 1) : u.kind \in {"dict", "list"}}}

ValTrees == Leaves \cup UNION {Nested(d) : d \in 1..MaxDepth}
MergeTrees == Leaves \cup UNION {MergeNested(d) : d \in 1..MaxDepth}

Absent == [kind |-> "absent", n |-> 0, members |-> <<>>]

\* The dict {"a": ta, "b": tb}, a key left out when its value is Absent.
Root(ta, tb) ==
    TDict((IF ta = Absent THEN <<>> ELSE <<Item(KA, ta)>>)
          \o (IF tb = Absent THEN <<>> ELSE <<Item(KB, tb)>>))

RECURSIVE Load(_, _)
RECURSIVE LoadSeq(_, _, _, _)
\* The heap h extended by the objects of tree t, and the value that denotes t.
Load(h, t) ==
    IF t.kind = "int" THEN Out(h, Int_(t.n))
    ELSE LET r == LoadSeq(h, [i \in DOMAIN t.members |-> t.members[i].v], 1, <<>>)
         IN Out(Append(r.h, [kind |-> t.kind,
                             members |-> [i \in DOMAIN t.members |->
                                            Item(t.members[i].k, r.v[i])]]),
                Ref(Len(r.h) + 1))

LoadSeq(h, ts, i, acc) ==
    IF i > Len(ts) THEN Out(h, acc)
    ELSE LET r == Load(h, ts[i]) IN LoadSeq(r.h, ts, i + 1, Append(acc, r.v))

\* A scenario: the heap holding the argument trees ts, and the arguments.
Scenario(ts) == LoadSeq(<<>>, ts, 1, <<>>)

----------------------------------------------------------------------------
(* Observation of values *)

RECURSIVE Abs(_, _)
\* The value x denotes in heap h, up to ==, as a record [kind, n, m]: an int
\* by its number n; a dict by the function m of its keys (insertion order is
\* not part of ==); a list by the function m of its indices (as keys); a set
\* by its elements, in order.  Defined for acyclic x.
Abs(h, x) ==
    IF ~IsRef(x) THEN [kind |-> "int", n |-> x.v, m |-> <<>>]
    ELSE LET o == h[x.v]
         IN IF o.kind = "dict"
            THEN [kind |-> "dict", n |-> 0,
                  m |-> [k \in Keys(o.members) |-> Abs(h, Get(o.members, k))]]
            ELSE [kind |-> o.kind, n |-> 0,
                  m |-> [k \in {IntKey(i) : i \in DOMAIN o.members} |->
                           Abs(h, o.members[k.v].v)]]

\* No container reachable from x contains itself.
Acyclic(h, x) == \A a \in ReachVal(h, x) : a \notin Reach(h, Refs(h[a]))

\* The objects reachable from x, by address: equal snapshots are the same
\* containers holding the same members.
Snapshot(h, x) == [a \in ReachVal(h, x) |-> h[a]]

----------------------------------------------------------------------------
(* Initial states: the arguments a caller may hold *)

\* One argument: a dict {"a": .., "b": ..}, or any container or scalar.
UnaryTrees ==
    {Root(ta, tb) : ta \in ValTrees \cup {Absent}, tb \in {Absent, TInt(1)}}
        \cup ValTrees

\* Two dicts: base and override.
BinaryTrees ==
    {<<Root(ta, b[1]), Root(ua, b[2])>> :
        ta \in MergeTrees \cup {Absent}, ua \in MergeTrees \cup {Absent},
        b \in {<<Absent, Absent>>, <<TInt(1), TInt(0)>>}}

SmallDicts == {Root(Absent, Absent), Root(TInt(0), Absent), Root(One(KA, TInt(1)), TInt(1)),
               Root(One(KB, TInt(0)), Absent), Root(Absent, TInt(0))}

\* No dict, or three and more small dicts, for merge_dicts.
NaryTrees ==
    {<<>>} \cup UNION {[1..n -> SmallDicts] : n \in 3..MaxDicts}

\* h with the dict at address t.from given t.k -> the object at address t.to:
\* the way a caller makes two values share a container, or a value contain
\* itself.
Tie(sc, t) == Out(SetItem(sc.h, t.from, t.k, Ref(t.to)), sc.v)

DictAddrs(h) == {a \in DOMAIN h : h[a].kind = "dict"}

KnotTrees ==
    {<<Root(One(KA, TInt(0)), Absent)>>,
     <<Root(One(KA, TInt(0)), Absent), Root(One(KA, TInt(1)), Absent)>>,
     <<Root(One(KA, TInt(0)), Absent), Root(Absent, TInt(0))>>}

\* One tie anywhere in a small scenario.
Knotted1 ==
    UNION {LET sc == Scenario(ts)
           IN {Tie(sc, [from |-> f, k |-> KC, to |-> a]) :
                  f \in DictAddrs(sc.h), a \in DOMAIN sc.h} : ts \in KnotTrees}

\* One tie from each of the two arguments.
Knotted2 ==
    UNION {LET sc == Scenario(ts)
           IN {Tie(Tie(sc, [from |-> sc.v[1].v, k |-> k1, to |-> a1]),
                   [from |-> sc.v[2].v, k |-> KC, to |-> a2]) :
                  k1 \in {KC, KD}, a1 \in {sc.v[1].v, sc.v[2].v}, a2 \in DOMAIN sc.h} :
           ts \in {u \in KnotTrees : Len(u) = 2}}

\* The same dict handed over as both arguments.
Aliased ==
    {Out(sc.h, <<sc.v[1], sc.v[1]>>) :
        sc \in {u \in {Scenario(<<t>>) : t \in UnaryTrees} \cup Knotted1 :
                  Len(u.v) = 1 /\ IsDict(u.h, u.v[1])}}

Scenarios ==
    {Scenario(<<t>>) : t \in UnaryTrees}
        \cup {Scenario(ts) : ts \in BinaryTrees \cup NaryTrees}
        \cup Knotted1 \cup Knotted2 \cup Aliased

Init ==
    /\ \E sc \in Scenarios : heap = sc.h /\ args = sc.v /\ pre = sc.h /\ post = sc.h
    /\ result = None
    /\ frozen = <<>>
    /\ op = "init"
    /\ touched = [n |-> 0, res |-> TRUE, arg |-> TRUE]

----------------------------------------------------------------------------
(* The calls *)

AllDicts(h, xs) == \A i \in DOMAIN xs : IsDict(h, xs[i])

\* The call returned (or raised) r in heap r.h.
Returned(name, r) ==
    /\ heap' = r.h
    /\ post' = r.h
    /\ result' = r.v
    /\ op' = name
    /\ UNCHANGED <<args, frozen, pre, touched>>

CallShallowCopy ==
    /\ op = "init" /\ Len(args) = 1
    /\ Returned("shallow_copy", shallow_copy(heap, args[1]))

CallDeepCopy ==
    /\ op = "init" /\ Len(args) = 1
    /\ Returned("deep_copy", deep_copy(heap, args[1]))

CallCopyDictWithOverride ==
    /\ op = "init" /\ Len(args) = 2 /\ AllDicts(heap, args)
    /\ Returned("copy_dict_with_override",
                copy_dict_with_override(heap, args[1], args[2]))

CallMergeDicts ==
    /\ op = "init" /\ AllDicts(heap, args)
    /\ Returned("merge_dicts", merge_dicts(heap, args))

CallDeepMergeDicts ==
    /\ op = "init" /\ Len(args) = 2 /\ AllDicts(heap, args)
    /\ Returned("deep_merge_dicts", deep_merge_dicts(heap, args[1], args[2]))

----------------------------------------------------------------------------
(* The client's mutations after the call *)

\* A value that no input holds.
MutVal == Int_(7)

\* The containers the client can reach: through an argument or the result.
Live == ReachAll(heap, args) \cup ReachVal(heap, result)

\* The client replaces the object at address a by o.
Mutated(a, o) ==
    /\ op # "init" /\ touched.n < MaxSteps
    /\ a \in Live
    /\ heap' = [heap EXCEPT ![a] = o]
    /\ touched' = [n |-> touched.n + 1,
                   res |-> touched.res /\ a \in ReachVal(heap, result),
                   arg |-> touched.arg /\ a \in ReachAll(heap, args)]
    /\ UNCHANGED <<args, result, frozen, op, pre, post>>

\* d[k] = 7 : reassigns k, or adds it
SetKey(a, k) ==
    /\ heap[a].kind = "dict"
    /\ Mutated(a, DictObj(DictSet(heap[a].members, k, MutVal)))

\* del d[k] for the first key of d
DelKey(a) ==
    /\ heap[a].kind = "dict" /\ heap[a].members # <<>>
    /\ Mutated(a, DictObj(Tail(heap[a].members)))

\* l.append(7)
ListAppend(a) ==
    /\ heap[a].kind = "list"
    /\ Mutated(a, ListObj(Append(heap[a].members, Elem(MutVal))))

\* s.add(7): 7 is larger than every element, and comes last
SetAdd(a) ==
    /\ heap[a].kind = "set" /\ Elem(MutVal) \notin Range(heap[a].members)
    /\ Mutated(a, SetObj(Append(heap[a].members, Elem(MutVal))))

Next ==
    \/ CallShallowCopy
    \/ CallDeepCopy
    \/ CallCopyDictWithOverride
    \/ CallMergeDicts
    \/ CallDeepMergeDicts
    \/ \E a \in DOMAIN heap : SetKey(a, KA)
    \/ \E a \in DOMAIN heap : DelKey(a)
    \/ \E a \in DOMAIN heap : ListAppend(a)
    \/ \E a \in DOMAIN heap : SetAdd(a)

Spec == Init /\ [][Next]_vars

----------------------------------------------------------------------------
(* freeze_dict on flat dicts: a second specification *)

\* The sequences of n distinct members of K
Arrangements(K, n) == {s \in [1..n -> K] : \A i, j \in 1..n : i # j => s[i] # s[j]}

\* The dicts of n items with keys of K and values of V, in every insertion order
FlatDicts(K, V, n) ==
    {DictObj([i \in 1..n |-> Item(ks[i], vs[i])]) :
        ks \in Arrangements(K, n), vs \in [1..n -> V]}

IntKeys == {IntKey(1), IntKey(2), IntKey(3)}
FsetKeys == {FsetKey(1), FsetKey(2), FsetKey(3)}
MixedKeys == {IntKey(1), StrKey(1)} \cup FsetKeys

\* Dicts with int keys and either value; dicts of two and more keys of mixed
\* types and frozensets.
FreezeFirst ==
    UNION {FlatDicts(IntKeys, {Int_(0), Int_(1)}, n) : n \in 0..MaxItems}
        \cup UNION {FlatDicts(MixedKeys, {Int_(0)}, n) : n \in 2..MaxItems}

FreezeSecond ==
    UNION {FlatDicts(IntKeys, {Int_(0), Int_(1)}, n) : n \in 0..MaxItems}
        \cup UNION {FlatDicts(FsetKeys, {Int_(0)}, n) : n \in 1..MaxItems}

InitFreeze ==
    /\ \E m1 \in FreezeFirst, m2 \in FreezeSecond : heap = <<m1, m2>>
    /\ args = <<Ref(1), Ref(2)>>
    /\ pre = heap /\ post = heap
    /\ result = None
    /\ frozen = <<FrozenNone, FrozenNone>>
    /\ op = "init"
    /\ touched = [n |-> 0, res |-> TRUE, arg |-> TRUE]

CallFreezeDict(i) ==
    /\ frozen[i].t = "none"
    /\ frozen' = [frozen EXCEPT ![i] = freeze_dict(heap, args[i])]
    /\ op' = "freeze_dict"
    /\ UNCHANGED <<heap, args, result, pre, post, touched>>

NextFreeze == \E i \in 1..2 : CallFreezeDict(i)

SpecFreeze == InitFreeze /\ [][NextFreeze]_vars

----------------------------------------------------------------------------
(* What the claims speak of *)

\* The call returned a value (it did not raise).
ReturnedValue == result.t \in {"int", "ref"}

\* Every argument denotes, container by container, what it denoted at the call.
InputsUnchanged == \A i \in DOMAIN args : Snapshot(heap, args[i]) = Snapshot(pre, args[i])

\* The result denotes, container by container, what it denoted at the return.
ResultUnchanged == Snapshot(heap, result) = Snapshot(post, result)

InputsAcyclic == \A i \in DOMAIN args : Acyclic(pre, args[i])

\* No container is reachable both from the result and from an argument.
Disjoint(h) == ReachVal(h, result) \cap ReachAll(h, args) = {}

\* The containers the client has changed since the return.
Changed == {a \in DOMAIN post : heap[a] # post[a]}

\* The containers below the top level of the result at the return.
NestedInResult == ReachVal(post, result) \ {result.v}

----------------------------------------------------------------------------
(* C1: for acyclic base and override, when deep_merge_dicts(base, override)  *)
(* returns, base and override denote at every nesting level what they        *)
(* denoted before the call: no container of the heap at the call differs.    *)
C1_DeepMergeLeavesInputs ==
    (op = "deep_merge_dicts" /\ InputsAcyclic /\ touched.n = 0)
        => /\ InputsUnchanged
           /\ \A a \in DOMAIN pre : heap[a] = pre[a]

\* A merge that recursed into a nested dict held by both inputs has returned.
C1_Witness ==
    /\ op = "deep_merge_dicts" /\ InputsAcyclic /\ touched.n = 0 /\ ReturnedValue
    /\ KA \in Keys(pre[args[1].v].members) \cap Keys(pre[args[2].v].members)
    /\ IsDict(pre, Get(pre[args[1].v].members, KA))
    /\ IsDict(pre, Get(pre[args[2].v].members, KA))
    /\ Get(pre[args[2].v].members, KA) # Get(pre[args[1].v].members, KA)

(* C2: the result of deep_merge_dicts shares no container with base or       *)
(* override at any depth: at the return no container is reachable from both, *)
(* mutations of containers reachable from the result leave both inputs as    *)
(* they were, and mutations of containers reachable from an input leave the  *)
(* result as it was.                                                         *)
C2_DeepMergeResultIndependent ==
    (op = "deep_merge_dicts" /\ ReturnedValue)
        => /\ Disjoint(post)
           /\ touched.res => InputsUnchanged
           /\ touched.arg => ResultUnchanged

\* A list that the recursive merge took from base, two levels down, has been
\* mutated through the result.
C2_Witness ==
    /\ op = "deep_merge_dicts" /\ ReturnedValue
    /\ touched.n > 0 /\ touched.res
    /\ KA \in Keys(pre[args[1].v].members) \cap Keys(pre[args[2].v].members)
    /\ LET x == Get(pre[args[1].v].members, KA)
           y == Get(pre[args[2].v].members, KA)
       IN /\ IsDict(pre, x) /\ IsDict(pre, y)
          /\ Keys(pre[x.v].members) = {KA} /\ Keys(pre[y.v].members) = {KB}
          /\ IsRef(Get(pre[x.v].members, KA))
          /\ pre[Get(pre[x.v].members, KA).v].kind = "list"
    /\ \E a \in NestedInResult \cap Changed : post[a].kind = "list"

RECURSIVE RefMerge(_, _)
\* The reference merge M of two dict values: a key of x alone keeps x's value,
\* a key of both that holds a dict on both sides holds their merge, every other
\* key of y holds y's value.
RefMerge(x, y) ==
    [kind |-> "dict", n |-> 0,
     m |-> [k \in DOMAIN x.m \cup DOMAIN y.m |->
              IF k \notin DOMAIN y.m THEN x.m[k]
              ELSE IF k \in DOMAIN x.m /\ x.m[k].kind = "dict" /\ y.m[k].kind = "dict"
                   THEN RefMerge(x.m[k], y.m[k])
                   ELSE y.m[k]]]

(* C3: for acyclic base and override, deep_merge_dicts(base, override)       *)
(* returns (raising nothing) a value equal to the reference merge of the     *)
(* values of base and override.                                              *)
C3_DeepMergeIsReferenceMerge ==
    (op = "deep_merge_dicts" /\ InputsAcyclic)
        => /\ ReturnedValue
           /\ Abs(post, result) = RefMerge(Abs(pre, args[1]), Abs(pre, args[2]))

\* Both inputs hold a dict under "a", with different keys inside: the merged
\* dict under "a" has the keys of both.
C3_Witness ==
    /\ op = "deep_merge_dicts" /\ InputsAcyclic /\ ReturnedValue
    /\ KA \in Keys(pre[args[1].v].members) \cap Keys(pre[args[2].v].members)
    /\ LET x == Get(pre[args[1].v].members, KA)
           y == Get(pre[args[2].v].members, KA)
           r == Get(post[result.v].members, KA)
       IN /\ IsDict(pre, x) /\ IsDict(pre, y)
          /\ Keys(pre[x.v].members) = {KA}
          /\ Keys(pre[y.v].members) = {KB}
          /\ Keys(post[r.v].members) = {KA, KB}

(* C4: for acyclic m, deep_copy(m) equals m and shares no container with m   *)
(* at any depth: mutations of containers reachable from the copy, top-level  *)
(* or nested, never change m, and mutations of m never change the copy.      *)
C4_DeepCopyIndependent ==
    (op = "deep_copy" /\ InputsAcyclic)
        => /\ ReturnedValue
           /\ Abs(post, result) = Abs(pre, args[1])
           /\ Disjoint(post)
           /\ touched.res => InputsUnchanged
           /\ touched.arg => ResultUnchanged

\* A nested container of the copy has been mutated.
C4_Witness ==
    /\ op = "deep_copy" /\ InputsAcyclic
    /\ touched.n > 0 /\ touched.res
    /\ NestedInResult \cap Changed # {}

(* C5: for a dict, list or set m, shallow_copy(m) is a new top-level         *)
(* container holding the same members as m; changing the top-level entries   *)
(* of the copy never changes m, and mutating a nested container reached      *)
(* through the copy changes what is seen through m.                          *)
C5_ShallowCopySharesMembers ==
    (op = "shallow_copy" /\ IsRef(args[1]))
        => /\ IsRef(result) /\ result.v \notin DOMAIN pre
           /\ post[result.v] = pre[args[1].v]
           /\ Changed \subseteq {result.v} => InputsUnchanged
           /\ NestedInResult \cap Changed # {} => ~InputsUnchanged

\* A nested container has been mutated through the copy.
C5_Witness ==
    /\ op = "shallow_copy" /\ IsRef(args[1])
    /\ touched.n > 0 /\ touched.res
    /\ NestedInResult \cap Changed # {}
    /\ heap[result.v] = post[result.v]

(* C6: copy_dict_with_override(base, overrides) returns a new dict whose     *)
(* keys are those of base and of overrides, holding overrides[k] for every   *)
(* key of overrides and base[k] for every other key; base and overrides are  *)
(* as they were before the call.                                             *)
C6_OverridePrecedence ==
    op = "copy_dict_with_override"
        => LET b == pre[args[1].v].members
               o == pre[args[2].v].members
               r == post[result.v].members
           IN /\ IsRef(result) /\ result.v \notin DOMAIN pre
              /\ Keys(r) = Keys(b) \cup Keys(o)
              /\ \A k \in Keys(r) :
                    Get(r, k) = IF k \in Keys(o) THEN Get(o, k) ELSE Get(b, k)
              /\ \A a \in DOMAIN pre : post[a] = pre[a]

\* base has a key that overrides replaces and a key that overrides lacks.
C6_Witness ==
    /\ op = "copy_dict_with_override"
    /\ \E k \in Keys(pre[args[1].v].members) \cap Keys(pre[args[2].v].members) :
          Get(pre[args[1].v].members, k) # Get(pre[args[2].v].members, k)
    /\ Keys(pre[args[1].v].members) \ Keys(pre[args[2].v].members) # {}

\* The index of the last of the dicts xs that has key k
LastWith(h, xs, k) ==
    CHOOSE i \in DOMAIN xs :
        /\ k \in Keys(h[xs[i].v].members)
        /\ \A j \in DOMAIN xs : j > i => k \notin Keys(h[xs[j].v].members)

(* C7: merge_dicts(d1, ..., dn), n >= 0, returns a dict whose keys are the   *)
(* union of the inputs' keys, each key holding the value (whole, not merged) *)
(* it has in the last input that contains it; with n = 0 the result is       *)
(* empty; no input is modified.                                              *)
C7_MergeDictsLastWins ==
    op = "merge_dicts"
        => LET r == post[result.v].members
           IN /\ IsRef(result) /\ result.v \notin DOMAIN pre
              /\ Keys(r) = UNION {Keys(pre[args[i].v].members) : i \in DOMAIN args}
              /\ \A k \in Keys(r) :
                    Get(r, k) = Get(pre[args[LastWith(pre, args, k)].v].members, k)
              /\ args = <<>> => r = <<>>
              /\ \A a \in DOMAIN pre : post[a] = pre[a]

\* Three dicts, the first and the last holding different dicts under "a".
C7_Witness ==
    /\ op = "merge_dicts" /\ Len(args) = 3
    /\ KA \in Keys(pre[args[1].v].members) \cap Keys(pre[args[3].v].members)
    /\ IsDict(pre, Get(pre[args[1].v].members, KA))
    /\ IsDict(pre, Get(pre[args[3].v].members, KA))
    /\ Abs(pre, Get(pre[args[1].v].members, KA)) # Abs(pre, Get(pre[args[3].v].members, KA))

----------------------------------------------------------------------------
(* Cyclic inputs *)

\* The pairs of dicts the merge of the dicts at addresses p[1] and p[2]
\* recurses into: one for each key under which both hold a dict.
PairSucc(h, p) ==
    LET x == h[p[1]].members
        y == h[p[2]].members
    IN {<<Get(x, k).v, Get(y, k).v>> :
           k \in {j \in Keys(x) \cap Keys(y) : IsDict(h, Get(x, j)) /\ IsDict(h, Get(y, j))}}

RECURSIVE PairReach(_, _)
PairReach(h, S) ==
    LET N == S \cup UNION {PairSucc(h, p) : p \in S}
    IN IF N = S THEN S ELSE PairReach(h, N)

\* base and override are cyclic along a common path of keys: following keys
\* under which both hold dicts leads from (base, override) back to a pair
\* already met.
CommonCycle(h, base, override) ==
    \E p \in PairReach(h, {<<base.v, override.v>>}) : p \in PairReach(h, PairSucc(h, p))

----------------------------------------------------------------------------
(* freeze_dict *)

\* Every two keys of K are ordered by <, one way or the other.
TotallyOrdered(K) ==
    \A k1, k2 \in K : k1 # k2 => Orderable(k1, k2) /\ (KeyLt(k1, k2) \/ KeyLt(k2, k1))

\* The (key, value) pairs of the dict at address a
Pairs(a) == {<<it.k, it.v>> : it \in Range(heap[a].members)}

Ascending(f) == \A i \in 1..(Len(f) - 1) : KeyLt(f[i][1], f[i + 1][1])

BothFrozen == frozen[1].t # "none" /\ frozen[2].t # "none"

(* C8: for dicts m1 and m2 whose keys are mutually orderable, with scalar    *)
(* values, freeze_dict returns for each the tuple of its (key, value) pairs  *)
(* in ascending key order, and freeze_dict(m1) = freeze_dict(m2) exactly     *)
(* when m1 and m2 have the same key-value pairs, whatever their insertion    *)
(* orders.                                                                   *)
C8_FreezeCanonical ==
    (/\ BothFrozen
     /\ TotallyOrdered(Keys(heap[1].members))
     /\ TotallyOrdered(Keys(heap[2].members)))
        => /\ \A i \in 1..2 :
                 /\ frozen[i].t = "tuple"
                 /\ Range(frozen[i].v) = Pairs(i)
                 /\ Len(frozen[i].v) = Len(heap[i].members)
                 /\ Ascending(frozen[i].v)
           /\ (frozen[1].v = frozen[2].v) <=> (Pairs(1) = Pairs(2))

\* Two dicts of the same three pairs, inserted in different orders, have been
\* frozen.
C8_Witness ==
    /\ BothFrozen
    /\ Len(heap[1].members) = 3
    /\ Pairs(1) = Pairs(2)
    /\ heap[1].members # heap[2].members
    /\ frozen[1].t = "tuple" /\ frozen[1] = frozen[2]

(* C10: freeze_dict applied to a dict whose keys cannot be totally ordered   *)
(* (some pair of keys is not comparable) raises an ordering error and        *)
(* returns no frozen form, leaving the dict unchanged.                       *)
C10_UnorderedKeysRaise ==
    \A i \in 1..2 :
        (frozen[i].t # "none" /\ ~TotallyOrdered(Keys(heap[i].members)))
            => frozen[i] = FrozenRaised("TypeError") /\ heap = pre

\* Some pair of keys of K has no < at all: comparing them raises.
SomePairRaises(K) == \E k1, k2 \in K : ~Orderable(k1, k2)

\* What does hold: keys of different types make the sort raise.
C10_MixedTypesRaise ==
    \A i \in 1..2 :
        (frozen[i].t # "none" /\ SomePairRaises(Keys(heap[i].members)))
            => frozen[i] = FrozenRaised("TypeError") /\ heap = pre

====
